---- MODULE Spec2Model ----
(***************************************************************************)
(* Model of the GitHub contribution statistics collector                   *)
(* (src/src/github-contribution-stats.ts).  One action per awaited request *)
(* and per loop iteration of the collectors; the upstream API is the       *)
(* environment and answers every request nondeterministically.             *)
(*                                                                         *)
(* Time is counted in whole days since the epoch.  A JavaScript object     *)
(* used as an ordered map is a record [keys, val]: keys is the insertion   *)
(* order, val the mapping.  A missing timestamp is Missing, a missing      *)
(* string or id is the empty string (both are falsy in the source).        *)
(***************************************************************************)
EXTENDS Integers, Sequences, FiniteSets, TLC

\* ---------------------------------------------------------------- bounds
MaxInstallations == 2
MaxRepos == 2
MaxBranches == 2
MaxCommits == 2
NumOids == 4
PerPage == 1
MaxSearchItems == 2
MaxPage == 3
MaxRateLimits == 2
MaxUpstreamItems == 2
Now == 31

\* ------------------------------------------------------ program constants
DefaultDays == 7
WeekDays == 7
MonthDays == 30
RateLimitStatus == 403

Missing == 0 - 1
NoString == ""

\* ------------------------------------------------------------- utilities
RECURSIVE SumSeq(_)
SumSeq(s) == IF s = <<>> THEN 0 ELSE Head(s) + SumSeq(Tail(s))

RECURSIVE SeqOfSetDesc(_)
\* the elements of a finite set of integers, largest first
SeqOfSetDesc(S) ==
    IF S = {} THEN <<>>
    ELSE LET m == CHOOSE x \in S : \A y \in S : y <= x
         IN <<m>> \o SeqOfSetDesc(S \ {m})

Range(s) == {s[i] : i \in 1..Len(s)}

\* ------------------------------------------------- JavaScript object maps
EmptyObject == [keys |-> <<>>, val |-> <<>>]
Has(o, k) == k \in DOMAIN o.val
Put(o, k, v) ==
    IF Has(o, k) THEN [o EXCEPT !.val = [o.val EXCEPT ![k] = v]]
    ELSE [keys |-> Append(o.keys, k), val |-> (k :> v) @@ o.val]
Get(o, k) == o.val[k]

\* ------------------------------------------------------ upstream data sets
\* author part of a commit node of the history query; an unlinked author
\* has an all-empty user, and may carry the name another author uses as login
NoUser == [login |-> NoString, id |-> NoString, databaseId |-> NoString]

CommitAuthor(oid) ==
    CASE oid % 4 = 1 -> [user |-> [login |-> "alice", id |-> "U_alice", databaseId |-> "101"],
                         name |-> "Alice", email |-> "alice@example.org"]
      [] oid % 4 = 2 -> [user |-> NoUser, name |-> "alice", email |-> "alice@example.org"]
      [] oid % 4 = 3 -> [user |-> NoUser, name |-> NoString, email |-> "carol@example.org"]
      [] OTHER       -> [user |-> NoUser, name |-> NoString, email |-> NoString]

CommitNode(oid) == [oid |-> oid, author |-> CommitAuthor(oid)]

Oids == 1..NumOids

\* a history answer: at most MaxCommits distinct commits, newest first
Histories ==
    {[i \in 1..Len(SeqOfSetDesc(S)) |-> CommitNode(SeqOfSetDesc(S)[i])] :
        S \in {T \in SUBSET Oids : Cardinality(T) <= MaxCommits}}

\* timestamps the upstream reports around a cutoff (never before the epoch)
TimesAround(cutoff) == {t \in {cutoff - 1, cutoff} : t >= 0}

PullRequestUsers ==
    { [present |-> FALSE, login |-> NoString, id |-> NoString, node_id |-> NoString],
      [present |-> TRUE, login |-> "alice", id |-> "101", node_id |-> "N_alice"] }

\* items of the pull-request listing and of the issue search
\* (a pull request was last updated when it was created or closed, or later)
PullRequests(cutoff) ==
    {pr \in [user : PullRequestUsers,
             created_at : TimesAround(cutoff),
             closed_at : TimesAround(cutoff) \cup {Missing},
             updated_at : TimesAround(cutoff)] :
        pr.updated_at >= pr.created_at /\ pr.updated_at >= pr.closed_at}

\* the pull_request.url of a search item, as its path segments; kind says
\* what the upstream sent: the url of a pull request of the searched
\* repository, of another repository, of another owner, a url that is not a
\* pull-request url, or no pull_request field at all
SearchUrls(owner_login, repo_name) ==
    { [kind |-> "match", present |-> TRUE, path |-> <<"repos", owner_login, repo_name, "pulls", "7">>],
      [kind |-> "other_repo", present |-> TRUE, path |-> <<"repos", owner_login, "elsewhere", "pulls", "7">>],
      [kind |-> "other_owner", present |-> TRUE, path |-> <<"repos", "someone", repo_name, "pulls", "7">>],
      [kind |-> "malformed", present |-> TRUE, path |-> <<"repos", owner_login, repo_name, "issues", "7">>],
      [kind |-> "missing", present |-> FALSE, path |-> <<>>] }

Numbers == {"7"}

\* errors a page request can fail with
PageErrors ==
    { [status |-> 403, message |-> "API rate limit exceeded"],
      [status |-> 403, message |-> "Resource not accessible"],
      [status |-> 500, message |-> "rate limit backend down"] }

\* the error any other request can fail with
Errors == { [status |-> 500, message |-> "Server Error"] }

MessagesWithRateLimit == {"API rate limit exceeded", "rate limit backend down"}

RepoName(i) == IF i = 1 THEN "r1" ELSE IF i = 2 THEN "r2" ELSE IF i = 3 THEN "r3" ELSE "r4"

\* <<pushed_at, updated_at>> of a listed repository
RepoTimes(cutoff) ==
    {ts \in (TimesAround(cutoff) \cup {Missing}) \X (TimesAround(cutoff) \cup {Missing}) :
        ts \in { <<Missing, Missing>>, <<Missing, cutoff>>, <<cutoff - 1, cutoff>>,
                 <<cutoff, cutoff - 1>>, <<cutoff - 1, cutoff - 1>> }}

\* answers of the repository listing: repositories r1..rn with any of these
RepoLists(cutoff) ==
    UNION {[1..n -> RepoTimes(cutoff)] : n \in 0..MaxRepos}

MakeRepos(ts) ==
    [i \in 1..Len(ts) |-> [name |-> RepoName(i), pushed_at |-> ts[i][1], updated_at |-> ts[i][2]]]

Installation(i) ==
    [id |-> i, account |-> [login |-> IF i % 2 = 1 THEN "org-a" ELSE "user-b",
                            type |-> IF i % 2 = 1 THEN "Organization" ELSE "User"]]

\* ------------------------------------------------------- cutoff and filter
CalculateCutoffDate(now, days_to_look_back) == now - days_to_look_back

ToDate(ts) == IF ts = Missing THEN 0 ELSE ts

LatestActivity_Earliest(repo) ==
    LET last_pushed == ToDate(repo.pushed_at)
        last_updated == ToDate(repo.updated_at)
    IN IF last_pushed > last_updated THEN last_updated ELSE last_pushed

LatestActivity(repo) ==
    LET last_pushed == ToDate(repo.pushed_at)
        last_updated == ToDate(repo.updated_at)
    IN IF last_pushed > last_updated THEN last_pushed ELSE last_updated

WasUpdatedInPeriod(repo, cutoff_date) == LatestActivity(repo) >= cutoff_date

FilterUpdatedRepositories(repos, cutoff_date) ==
    SelectSeq(repos, LAMBDA repo : WasUpdatedInPeriod(repo, cutoff_date))

\* ------------------------------------------------------------ accumulators
NewAccumulator(user_id) ==
    [user_id |-> user_id,
     commits_by_repo |-> EmptyObject,
     pull_requests_by_repo |-> EmptyObject,
     total_commits |-> 0,
     total_prs_opened |-> 0,
     total_prs_closed |-> 0]

CommitAuthorLogin_EmailFirst(commit) ==
    IF commit.author.user.login # NoString THEN commit.author.user.login
    ELSE IF commit.author.email # NoString THEN commit.author.email
    ELSE IF commit.author.name # NoString THEN commit.author.name
    ELSE "Unknown"

CommitAuthorLogin(commit) ==
    IF commit.author.user.login # NoString THEN commit.author.user.login
    ELSE IF commit.author.name # NoString THEN commit.author.name
    ELSE IF commit.author.email # NoString THEN commit.author.email
    ELSE "Unknown"

CommitUserId(commit) ==
    IF commit.author.user.id # NoString THEN commit.author.user.id
    ELSE IF commit.author.user.databaseId # NoString THEN commit.author.user.databaseId
    ELSE NoString

IsNewCommit_NoDedup(processed_commits, oid) == TRUE

IsNewCommit(processed_commits, oid) == oid \notin processed_commits

AddCommit_TotalOnly(accumulator, repo_name) ==
    [accumulator EXCEPT
        !.commits_by_repo = IF Has(@, repo_name) THEN @ ELSE Put(@, repo_name, 0),
        !.total_commits = @ + 1]

AddCommit_RepoOnly(accumulator, repo_name) ==
    [accumulator EXCEPT
        !.commits_by_repo = Put(@, repo_name, (IF Has(@, repo_name) THEN Get(@, repo_name) ELSE 0) + 1)]

\* the two increments of processBranchCommits on the author's accumulator
AddCommit(accumulator, repo_name) ==
    LET by1 == IF ~Has(accumulator.commits_by_repo, repo_name)
                  \/ Get(accumulator.commits_by_repo, repo_name) = 0
               THEN Put(accumulator.commits_by_repo, repo_name, 0)
               ELSE accumulator.commits_by_repo
    IN [accumulator EXCEPT !.commits_by_repo = Put(by1, repo_name, Get(by1, repo_name) + 1),
                           !.total_commits = @ + 1]

CountCommit_OverwriteId(stats, commit, repo_name) ==
    LET author_login == CommitAuthorLogin(commit)
        user_id == CommitUserId(commit)
        s1 == IF ~Has(stats, author_login)
              THEN Put(stats, author_login, NewAccumulator(user_id))
              ELSE IF user_id # NoString
                   THEN Put(stats, author_login, [Get(stats, author_login) EXCEPT !.user_id = user_id])
                   ELSE stats
    IN Put(s1, author_login, AddCommit(Get(s1, author_login), repo_name))

\* body of the loop of processBranchCommits for a commit not seen before
CountCommit(stats, commit, repo_name) ==
    LET author_login == CommitAuthorLogin(commit)
        user_id == CommitUserId(commit)
        s1 == IF ~Has(stats, author_login)
              THEN Put(stats, author_login, NewAccumulator(user_id))
              ELSE IF user_id # NoString /\ Get(stats, author_login).user_id = NoString
                   THEN Put(stats, author_login, [Get(stats, author_login) EXCEPT !.user_id = user_id])
                   ELSE stats
    IN Put(s1, author_login, AddCommit(Get(s1, author_login), repo_name))

PullRequestLogin(pr) == IF pr.user.present THEN pr.user.login ELSE "Unknown"

PullRequestUserId(pr) ==
    IF pr.user.id # NoString THEN pr.user.id
    ELSE IF pr.user.node_id # NoString THEN pr.user.node_id
    ELSE NoString

CountsAsOpened_Strict(pr, cutoff_date) == pr.created_at > cutoff_date

CountsAsOpened(pr, cutoff_date) == pr.created_at >= cutoff_date

CountsAsClosed(pr, cutoff_date) == pr.closed_at # Missing /\ pr.closed_at >= cutoff_date

ProcessPullRequest(stats, pr, repo_name, cutoff_date) ==
    LET author_login == PullRequestLogin(pr)
        user_id == PullRequestUserId(pr)
        s1 == IF ~Has(stats, author_login)
              THEN Put(stats, author_login, NewAccumulator(user_id))
              ELSE IF user_id # NoString /\ Get(stats, author_login).user_id = NoString
                   THEN Put(stats, author_login, [Get(stats, author_login) EXCEPT !.user_id = user_id])
                   ELSE stats
        a1 == Get(s1, author_login)
        by1 == IF ~Has(a1.pull_requests_by_repo, repo_name)
               THEN Put(a1.pull_requests_by_repo, repo_name, [opened |-> 0, closed |-> 0])
               ELSE a1.pull_requests_by_repo
        e1 == Get(by1, repo_name)
        a2 == IF CountsAsOpened(pr, cutoff_date)
              THEN [a1 EXCEPT !.pull_requests_by_repo = Put(by1, repo_name, [e1 EXCEPT !.opened = @ + 1]),
                              !.total_prs_opened = @ + 1]
              ELSE [a1 EXCEPT !.pull_requests_by_repo = by1]
        e2 == Get(a2.pull_requests_by_repo, repo_name)
        a3 == IF CountsAsClosed(pr, cutoff_date)
              THEN [a2 EXCEPT !.pull_requests_by_repo = Put(a2.pull_requests_by_repo, repo_name, [e2 EXCEPT !.closed = @ + 1]),
                              !.total_prs_closed = @ + 1]
              ELSE a2
    IN Put(s1, author_login, a3)

FallbackCountPullRequest_NoClosed(stats, pr, repo_name, cutoff_date) ==
    ProcessPullRequest(stats, [pr EXCEPT !.closed_at = Missing], repo_name, cutoff_date)

\* the per-item body of the fallback loop, a second copy of the same code
FallbackCountPullRequest(stats, pr, repo_name, cutoff_date) ==
    LET author_login == IF pr.user.present THEN pr.user.login ELSE "Unknown"
        user_id == IF pr.user.id # NoString THEN pr.user.id
                   ELSE IF pr.user.node_id # NoString THEN pr.user.node_id
                   ELSE NoString
        s1 == IF ~Has(stats, author_login)
              THEN Put(stats, author_login, NewAccumulator(user_id))
              ELSE IF user_id # NoString /\ Get(stats, author_login).user_id = NoString
                   THEN Put(stats, author_login, [Get(stats, author_login) EXCEPT !.user_id = user_id])
                   ELSE stats
        a1 == Get(s1, author_login)
        by1 == IF ~Has(a1.pull_requests_by_repo, repo_name)
               THEN Put(a1.pull_requests_by_repo, repo_name, [opened |-> 0, closed |-> 0])
               ELSE a1.pull_requests_by_repo
        e1 == Get(by1, repo_name)
        a2 == IF pr.created_at >= cutoff_date
              THEN [a1 EXCEPT !.pull_requests_by_repo = Put(by1, repo_name, [e1 EXCEPT !.opened = @ + 1]),
                              !.total_prs_opened = @ + 1]
              ELSE [a1 EXCEPT !.pull_requests_by_repo = by1]
        e2 == Get(a2.pull_requests_by_repo, repo_name)
        a3 == IF pr.closed_at # Missing /\ pr.closed_at >= cutoff_date
              THEN [a2 EXCEPT !.pull_requests_by_repo = Put(a2.pull_requests_by_repo, repo_name, [e2 EXCEPT !.closed = @ + 1]),
                              !.total_prs_closed = @ + 1]
              ELSE a2
    IN Put(s1, author_login, a3)

\* pr_repo_regex applied to a url: the owner and the repository it captures
MatchPullRequestUrl(path) ==
    IF Len(path) >= 5 /\ path[1] = "repos" /\ path[4] = "pulls" /\ path[5] \in Numbers
    THEN [matched |-> TRUE, owner |-> path[2], repo |-> path[3]]
    ELSE [matched |-> FALSE, owner |-> NoString, repo |-> NoString]

IsTargetPullRequest_AnyRepository(url, owner_login, repo_name) == url.present

\* whether the loop body of processPullRequestsFromSearch calls
\* processPullRequest: reading the url of an item without pull_request throws
\* inside the try block of the item, and the catch block only logs
IsTargetPullRequest(url, owner_login, repo_name) ==
    /\ url.present
    /\ LET pr_repo_match == MatchPullRequestUrl(url.path)
       IN /\ pr_repo_match.matched
          /\ pr_repo_match.owner = owner_login
          /\ pr_repo_match.repo = repo_name

UpdatedInWindow(pr, cutoff_date) == pr.updated_at >= cutoff_date

IsRateLimitError(error) ==
    error.status = RateLimitStatus /\ error.message \in MessagesWithRateLimit

\* ------------------------------------------------- installation statistics
Dedup_KeepAll(s) == s

RECURSIVE Dedup(_)
\* iteration order of new Set([...]) over a list: first occurrences
Dedup(s) ==
    IF s = <<>> THEN <<>>
    ELSE LET r == Dedup(SubSeq(s, 1, Len(s) - 1))
             x == s[Len(s)]
         IN IF x \in Range(r) THEN r ELSE Append(r, x)

RepoContribution(stats_of_user, repo_name) ==
    [repo_name |-> repo_name,
     commits |-> IF Has(stats_of_user.commits_by_repo, repo_name)
                 THEN Get(stats_of_user.commits_by_repo, repo_name) ELSE 0,
     prs_opened |-> IF Has(stats_of_user.pull_requests_by_repo, repo_name)
                    THEN Get(stats_of_user.pull_requests_by_repo, repo_name).opened ELSE 0,
     prs_closed |-> IF Has(stats_of_user.pull_requests_by_repo, repo_name)
                    THEN Get(stats_of_user.pull_requests_by_repo, repo_name).closed ELSE 0]

UserStat(user_name, stats_of_user) ==
    LET repo_set == Dedup(stats_of_user.commits_by_repo.keys \o stats_of_user.pull_requests_by_repo.keys)
    IN [name |-> user_name,
        user_id |-> stats_of_user.user_id,
        total_commits |-> stats_of_user.total_commits,
        total_prs_opened |-> stats_of_user.total_prs_opened,
        total_prs_closed |-> stats_of_user.total_prs_closed,
        repo_contributions |-> [i \in 1..Len(repo_set) |-> RepoContribution(stats_of_user, repo_set[i])]]

FormatInstallationStats(installation, days_to_look_back, stats) ==
    [kind |-> "stats",
     id |-> installation.id,
     account |-> installation.account.login,
     account_type |-> installation.account.type,
     period_days |-> days_to_look_back,
     user_stats |-> [i \in 1..Len(stats.keys) |-> UserStat(stats.keys[i], Get(stats, stats.keys[i]))]]

InstallationError(installation, error) ==
    [kind |-> "error",
     id |-> installation.id,
     account |-> installation.account.login,
     error |-> error.message]

\* ------------------------------------------------------------------ state
VARIABLES
    pc,                 \* position of the single thread of control
    config,             \* the argument of generateGitHubReport
    days_to_look_back,
    installations, inst_idx, results,
    repos, updated_repos, cutoff_date,
    repo_names, repo_idx, user_stats,
    processed_commits, num_branches, branch_idx, branch_commits,
    total_count, search_left,
    page, has_more_pages, total_prs, page_len, page_pos, filtered_count,
    outcome,            \* what generateGitHubReport returned or raised
    \* history variables, read by the properties only
    last,               \* what the last step did
    commit_hits,        \* per commit id: what it added in this repository pass
    oid_branches,       \* per commit id: the branches that returned it
    pr_applied,         \* per listed pull request: how often it was counted
    retry,              \* the page whose request just failed with a rate limit
    rate_limits,        \* rate-limit errors answered in this pagination
    items_used,         \* items the upstream has returned in this run
    repo_failed,        \* repositories whose commit collection failed
    repo_started,       \* repositories whose collection was started
    inst_ok             \* per processed installation: did its processing complete

vars == <<pc, config, days_to_look_back, installations, inst_idx, results,
          repos, updated_repos, cutoff_date, repo_names, repo_idx, user_stats,
          processed_commits, num_branches, branch_idx, branch_commits,
          total_count, search_left, page, has_more_pages, total_prs, page_len, page_pos,
          filtered_count, outcome, last, commit_hits, oid_branches, pr_applied,
          retry, rate_limits, items_used, repo_failed, repo_started, inst_ok>>

inputVars == <<config, days_to_look_back, installations>>
repoListVars == <<repos, updated_repos>>
passVars == <<cutoff_date, repo_names, user_stats>>
commitVars == <<processed_commits, num_branches, branch_idx, branch_commits>>
prVars == <<total_count, search_left, page, has_more_pages, total_prs, page_len, page_pos, filtered_count>>
commitGhosts == <<commit_hits, oid_branches>>
pageGhosts == <<pr_applied, retry, rate_limits>>
passGhosts == <<repo_failed, repo_started>>

NoEvent == [kind |-> "none"]
NoHits == [o \in Oids |-> [repo |-> 0, total |-> 0]]
NoBranches == [o \in Oids |-> {}]
ListedNumbers == 1..(MaxPage * PerPage)
NoneApplied == [n \in ListedNumbers |-> 0]
NoRetry == [pending |-> FALSE, page |-> 0]
NoOutcome == [kind |-> "running"]

ConfigChoices == {Missing, MonthDays, Now}

Init ==
    /\ pc = "init"
    /\ config \in [days_to_look_back : ConfigChoices]
    /\ days_to_look_back = DefaultDays
    /\ installations = <<>>
    /\ inst_idx = 1
    /\ results = <<>>
    /\ repos = <<>>
    /\ updated_repos = <<>>
    /\ cutoff_date = 0
    /\ repo_names = <<>>
    /\ repo_idx = 1
    /\ user_stats = EmptyObject
    /\ processed_commits = {}
    /\ num_branches = 0
    /\ branch_idx = 1
    /\ branch_commits = <<>>
    /\ total_count = 0
    /\ search_left = 0
    /\ page = 1
    /\ has_more_pages = FALSE
    /\ total_prs = 0
    /\ page_len = 0
    /\ page_pos = 1
    /\ filtered_count = 0
    /\ outcome = NoOutcome
    /\ last = NoEvent
    /\ commit_hits = NoHits
    /\ oid_branches = NoBranches
    /\ pr_applied = NoneApplied
    /\ retry = NoRetry
    /\ rate_limits = 0
    /\ items_used = 0
    /\ repo_failed = <<>>
    /\ repo_started = {}
    /\ inst_ok = <<>>

\* ------------------------------------------------------------ control flow
\* the locals of one iteration of the repository loop go out of scope
ResetRepoLocals ==
    /\ processed_commits' = {}
    /\ num_branches' = 0
    /\ branch_idx' = 1
    /\ branch_commits' = <<>>
    /\ total_count' = 0
    /\ search_left' = 0
    /\ page' = 1
    /\ has_more_pages' = FALSE
    /\ total_prs' = 0
    /\ page_len' = 0
    /\ page_pos' = 1
    /\ filtered_count' = 0
    /\ commit_hits' = NoHits
    /\ oid_branches' = NoBranches
    /\ pr_applied' = NoneApplied
    /\ retry' = NoRetry
    /\ rate_limits' = 0

NextRepoAfterError_Abort(idx, n) == n + 1

\* the for loop of collectUserStats moves on after an error it caught
NextRepoAfterError(idx, n) == idx + 1

\* the iteration of collectUserStats for this repository ends
NextRepository ==
    /\ repo_idx' = repo_idx + 1
    /\ pc' = "repo"
    /\ ResetRepoLocals

AfterBranch_FirstOnly(idx, n) == "search"

\* the for loop of processBranchCommits ends: next branch, or the pull requests
AfterBranch(idx, n) == IF idx > n THEN "search" ELSE "history"

\* processRepositoryBranches has returned: its locals are gone
LeaveBranches ==
    /\ num_branches' = 0
    /\ branch_idx' = 1
    /\ branch_commits' = <<>>
    /\ commit_hits' = NoHits
    /\ oid_branches' = NoBranches
    /\ UNCHANGED processed_commits

\* entry of fetchPRsWithPagination
StartFallback ==
    /\ page' = 1
    /\ has_more_pages' = TRUE
    /\ total_prs' = 0
    /\ page_len' = 0
    /\ page_pos' = 1
    /\ filtered_count' = 0
    /\ pc' = "page"

PushResult_DropError(rs, record) == IF record.kind = "error" THEN rs ELSE Append(rs, record)

PushResult(rs, record) == Append(rs, record)

HasMorePagesAfterError_NeverStops(error) == TRUE

\* has_more_pages after the catch block of the pagination loop: it is left
\* as it is for a rate-limit error and set to false for any other error
HasMorePagesAfterError(error) == IsRateLimitError(error)

Handler_NoInstallationCatch(site) ==
    CASE site \in {"app", "installations", "octokit", "repositories"} -> "top"
      [] site \in {"branches", "history"} -> "repository"
      [] site = "search" -> "search"
      [] site = "page" -> "pagination"

\* the try block that catches an error thrown at a request site
Handler(site) ==
    CASE site \in {"app", "installations"} -> "top"
      [] site \in {"octokit", "repositories"} -> "installation"
      [] site \in {"branches", "history"} -> "repository"
      [] site = "search" -> "search"
      [] site = "page" -> "pagination"

\* an error is thrown at a request site and handled by the try block around it
Throw(site, error) ==
    CASE Handler(site) = "top" ->
            /\ pc' = "raised"
            /\ outcome' = [kind |-> "raised", site |-> site, error |-> error.message]
            /\ UNCHANGED <<inst_idx, results, repo_idx, commitVars, prVars, commitGhosts, pageGhosts>>
      [] Handler(site) = "installation" ->
            /\ results' = PushResult(results, InstallationError(installations[inst_idx], error))
            /\ inst_idx' = inst_idx + 1
            /\ pc' = "installation"
            /\ UNCHANGED <<repo_idx, commitVars, prVars, commitGhosts, pageGhosts, outcome>>
      [] Handler(site) = "repository" ->
            /\ repo_idx' = NextRepoAfterError(repo_idx, Len(repo_names))
            /\ pc' = "repo"
            /\ ResetRepoLocals
            /\ UNCHANGED <<inst_idx, results, outcome>>
      [] Handler(site) = "search" ->
            /\ StartFallback
            /\ LeaveBranches
            /\ UNCHANGED <<inst_idx, results, repo_idx, total_count, search_left, pageGhosts, outcome>>
      [] Handler(site) = "pagination" ->
            IF HasMorePagesAfterError(error)
            THEN /\ page' = IF IsRateLimitError(error) THEN page - 1 ELSE page
                 /\ retry' = IF IsRateLimitError(error) THEN [pending |-> TRUE, page |-> page] ELSE retry
                 /\ rate_limits' = IF IsRateLimitError(error) THEN rate_limits + 1 ELSE rate_limits
                 /\ UNCHANGED <<pc, inst_idx, results, repo_idx, commitVars, total_count, search_left,
                                has_more_pages, total_prs, page_len, page_pos, filtered_count,
                                commitGhosts, pr_applied, outcome>>
            ELSE /\ NextRepository
                 /\ UNCHANGED <<inst_idx, results, outcome>>

\* --------------------------------------------------------- report renderer
RECURSIVE InsertDesc_TiesReversed(_, _)
InsertDesc_TiesReversed(sorted, x) ==
    IF sorted = <<>> THEN <<x>>
    ELSE IF Head(sorted).total > x.total
         THEN <<Head(sorted)>> \o InsertDesc_TiesReversed(Tail(sorted), x)
         ELSE <<x>> \o sorted

RECURSIVE InsertDesc(_, _)
\* insert after every element whose total is not smaller: a stable order
InsertDesc(sorted, x) ==
    IF sorted = <<>> THEN <<x>>
    ELSE IF Head(sorted).total >= x.total
         THEN <<Head(sorted)>> \o InsertDesc(Tail(sorted), x)
         ELSE <<x>> \o sorted

RECURSIVE SortDesc(_)
\* Array.prototype.sort with the comparator total_b - total_a
SortDesc(pairs) ==
    IF pairs = <<>> THEN <<>>
    ELSE InsertDesc(SortDesc(SubSeq(pairs, 1, Len(pairs) - 1)), pairs[Len(pairs)])

UserTotal(user) == user.total_commits + user.total_prs_opened + user.total_prs_closed
RepoTotal(repo) == repo.commits + repo.prs_opened + repo.prs_closed

SortRepoContributions(rows) ==
    LET sorted == SortDesc([i \in 1..Len(rows) |-> [total |-> RepoTotal(rows[i]), item |-> rows[i]]])
    IN [i \in 1..Len(rows) |-> sorted[i].item]

SortUserStats(users) ==
    LET sorted == SortDesc([i \in 1..Len(users) |-> [total |-> UserTotal(users[i]), item |-> users[i]]])
    IN [i \in 1..Len(users) |->
            [sorted[i].item EXCEPT !.repo_contributions = SortRepoContributions(@)]]

\* the result list as generateReport leaves it: it sorts the lists in place
ResultsAfterReport(rs) ==
    [i \in 1..Len(rs) |->
        IF rs[i].kind = "error" THEN rs[i]
        ELSE [rs[i] EXCEPT !.user_stats = SortUserStats(@)]]

PeriodLabel_NoMonth(period_days) ==
    IF period_days = WeekDays THEN [unit |-> "week", n |-> 1]
    ELSE [unit |-> "days", n |-> period_days]

PeriodLabel(period_days) ==
    IF period_days = WeekDays THEN [unit |-> "week", n |-> 1]
    ELSE IF period_days = MonthDays THEN [unit |-> "month", n |-> 1]
    ELSE [unit |-> "days", n |-> period_days]

RECURSIVE Flatten(_)
Flatten(ss) == IF ss = <<>> THEN <<>> ELSE Head(ss) \o Flatten(Tail(ss))

UserLines(user) ==
    <<[line |-> "user", name |-> user.name, user_id |-> user.user_id],
      [line |-> "total", commits |-> user.total_commits, prs_opened |-> user.total_prs_opened,
       prs_closed |-> user.total_prs_closed],
      [line |-> "by_repository"]>>
    \o [i \in 1..Len(user.repo_contributions) |->
            [line |-> "repo", repo |-> user.repo_contributions[i]]]

InstallationLines_NoSeparator(installation) ==
    IF installation.kind = "error"
    THEN <<[line |-> "error", account |-> installation.account, error |-> installation.error]>>
    ELSE <<[line |-> "header", account |-> installation.account,
            account_type |-> installation.account_type,
            period_label |-> PeriodLabel(installation.period_days)]>>
         \o (IF Len(installation.user_stats) > 0
             THEN Flatten([i \in 1..Len(installation.user_stats) |-> UserLines(installation.user_stats[i])])
             ELSE <<[line |-> "no_contributions"]>>)

InstallationLines(installation) ==
    IF installation.kind = "error"
    THEN <<[line |-> "error", account |-> installation.account, error |-> installation.error]>>
    ELSE <<[line |-> "header", account |-> installation.account,
            account_type |-> installation.account_type,
            period_label |-> PeriodLabel(installation.period_days)]>>
         \o (IF Len(installation.user_stats) > 0
             THEN Flatten([i \in 1..Len(installation.user_stats) |-> UserLines(installation.user_stats[i])])
             ELSE <<[line |-> "no_contributions"]>>)
         \o <<[line |-> "blank"]>>

\* the lines of the summary, computed on the lists already sorted in place
GenerateReport(rs) ==
    Flatten([i \in 1..Len(rs) |-> InstallationLines(ResultsAfterReport(rs)[i])])

\* ---------------------------------------------------------------- actions
\* what the upstream serves for a page number below 1: its first page
RequestedPage(p) == IF p < 1 THEN 1 ELSE p

TotalCommits(stats) ==
    SumSeq([i \in 1..Len(stats.keys) |-> Get(stats, stats.keys[i]).total_commits])

TotalOpened(stats) ==
    SumSeq([i \in 1..Len(stats.keys) |-> Get(stats, stats.keys[i]).total_prs_opened])

TotalClosed(stats) ==
    SumSeq([i \in 1..Len(stats.keys) |-> Get(stats, stats.keys[i]).total_prs_closed])

RepoCommits(stats, repo_name) ==
    SumSeq([i \in 1..Len(stats.keys) |->
        LET by == Get(stats, stats.keys[i]).commits_by_repo
        IN IF Has(by, repo_name) THEN Get(by, repo_name) ELSE 0])

RepoOpened(stats, repo_name) ==
    SumSeq([i \in 1..Len(stats.keys) |->
        LET by == Get(stats, stats.keys[i]).pull_requests_by_repo
        IN IF Has(by, repo_name) THEN Get(by, repo_name).opened ELSE 0])

RepoClosed(stats, repo_name) ==
    SumSeq([i \in 1..Len(stats.keys) |->
        LET by == Get(stats, stats.keys[i]).pull_requests_by_repo
        IN IF Has(by, repo_name) THEN Get(by, repo_name).closed ELSE 0])

InitializeGitHubApp ==
    /\ pc = "init"
    /\ days_to_look_back' = IF config.days_to_look_back = Missing
                            THEN DefaultDays ELSE config.days_to_look_back
    /\ pc' = "getInstallations"
    /\ last' = [kind |-> "request", site |-> "app"]
    /\ UNCHANGED <<config, installations, inst_idx, results, repoListVars, passVars, repo_idx,
                   commitVars, prVars, outcome, commitGhosts, pageGhosts, items_used,
                   passGhosts, inst_ok>>

InitializeGitHubAppFail ==
    /\ pc = "init"
    /\ \E error \in Errors : Throw("app", error)
    /\ days_to_look_back' = IF config.days_to_look_back = Missing
                            THEN DefaultDays ELSE config.days_to_look_back
    /\ last' = [kind |-> "failure", site |-> "app"]
    /\ UNCHANGED <<config, installations, repoListVars, passVars, items_used, passGhosts, inst_ok>>

GetInstallations ==
    /\ pc = "getInstallations"
    /\ \E n \in 0..MaxInstallations : installations' = [i \in 1..n |-> Installation(i)]
    /\ inst_idx' = 1
    /\ results' = <<>>
    /\ pc' = "installation"
    /\ last' = [kind |-> "request", site |-> "installations"]
    /\ UNCHANGED <<config, days_to_look_back, repoListVars, passVars, repo_idx, commitVars, prVars,
                   outcome, commitGhosts, pageGhosts, items_used, passGhosts, inst_ok>>

GetInstallationsFail ==
    /\ pc = "getInstallations"
    /\ \E error \in Errors : Throw("installations", error)
    /\ last' = [kind |-> "failure", site |-> "installations"]
    /\ UNCHANGED <<inputVars, repoListVars, passVars, items_used, passGhosts, inst_ok>>

GetInstallationOctokit ==
    /\ pc = "installation"
    /\ inst_idx <= Len(installations)
    /\ pc' = "getRepositories"
    /\ repo_names' = <<>>
    /\ repo_failed' = <<>>
    /\ repo_started' = {}
    /\ last' = [kind |-> "request", site |-> "octokit"]
    /\ UNCHANGED <<inputVars, inst_idx, results, repoListVars, cutoff_date, user_stats, repo_idx,
                   commitVars, prVars, outcome, commitGhosts, pageGhosts, items_used, inst_ok>>

GetInstallationOctokitFail ==
    /\ pc = "installation"
    /\ inst_idx <= Len(installations)
    /\ \E error \in Errors : Throw("octokit", error)
    /\ repo_names' = <<>>
    /\ repo_failed' = <<>>
    /\ repo_started' = {}
    /\ inst_ok' = Append(inst_ok, [ok |-> FALSE, site |-> "octokit"])
    /\ last' = [kind |-> "failure", site |-> "octokit"]
    /\ UNCHANGED <<inputVars, repoListVars, cutoff_date, user_stats, items_used>>

GetRepositories ==
    /\ pc = "getRepositories"
    /\ LET cutoff == CalculateCutoffDate(Now, days_to_look_back)
       IN /\ \E ts \in RepoLists(cutoff) : repos' = MakeRepos(ts)
          /\ cutoff_date' = cutoff
          /\ updated_repos' = FilterUpdatedRepositories(repos', cutoff)
    /\ pc' = "collect"
    /\ last' = [kind |-> "request", site |-> "repositories"]
    /\ UNCHANGED <<inputVars, inst_idx, results, repo_names, user_stats, repo_idx, commitVars, prVars,
                   outcome, commitGhosts, pageGhosts, items_used, passGhosts, inst_ok>>

GetRepositoriesFail ==
    /\ pc = "getRepositories"
    /\ \E error \in Errors : Throw("repositories", error)
    /\ inst_ok' = Append(inst_ok, [ok |-> FALSE, site |-> "repositories"])
    /\ last' = [kind |-> "failure", site |-> "repositories"]
    /\ UNCHANGED <<inputVars, repoListVars, passVars, items_used, passGhosts>>

NewUserStats_Reused(previous) == previous

\* the accumulator a call of collectUserStats starts with: a new empty object,
\* whatever the object of the previous call held
NewUserStats(previous) == EmptyObject

\* entry of collectUserStats; from here on only the names of the filtered
\* repositories are read
CollectUserStats ==
    /\ pc = "collect"
    /\ user_stats' = NewUserStats(user_stats)
    /\ repo_names' = [i \in 1..Len(updated_repos) |-> updated_repos[i].name]
    /\ repos' = <<>>
    /\ updated_repos' = <<>>
    /\ repo_idx' = 1
    /\ pc' = "repo"
    /\ last' = NoEvent
    /\ UNCHANGED <<inputVars, inst_idx, results, cutoff_date, commitVars, prVars, outcome,
                   commitGhosts, pageGhosts, items_used, passGhosts, inst_ok>>

ReturnedOids == {o \in Oids : oid_branches[o] # {}}

GetBranches ==
    /\ pc = "repo"
    /\ repo_idx <= Len(repo_names)
    /\ \E n \in 0..MaxBranches :
          /\ num_branches' = n
          /\ pc' = AfterBranch(1, n)
    /\ branch_idx' = 1
    /\ processed_commits' = {}
    /\ repo_started' = repo_started \cup {repo_names[repo_idx]}
    /\ last' = [kind |-> "request", site |-> "branches"]
    /\ UNCHANGED <<inputVars, inst_idx, results, repoListVars, passVars, repo_idx, branch_commits,
                   prVars, outcome, commitGhosts, pageGhosts, items_used, repo_failed, inst_ok>>

GetBranchesFail ==
    /\ pc = "repo"
    /\ repo_idx <= Len(repo_names)
    /\ \E error \in Errors : Throw("branches", error)
    /\ repo_started' = repo_started \cup {repo_names[repo_idx]}
    /\ repo_failed' = (repo_names[repo_idx] :> Cardinality(ReturnedOids)) @@ repo_failed
    /\ last' = [kind |-> "failure", site |-> "branches"]
    /\ UNCHANGED <<inputVars, repoListVars, passVars, items_used, inst_ok>>

\* the history query of processBranchCommits for the current branch
GetHistory ==
    /\ pc = "history"
    /\ \E history \in Histories :
          /\ items_used + Len(history) <= MaxUpstreamItems
          /\ items_used' = items_used + Len(history)
          /\ branch_commits' = history
          /\ oid_branches' = [o \in Oids |->
                IF \E i \in 1..Len(history) : history[i].oid = o
                THEN oid_branches[o] \cup {branch_idx} ELSE oid_branches[o]]
          /\ IF history = <<>>
             THEN /\ branch_idx' = branch_idx + 1
                  /\ pc' = AfterBranch(branch_idx + 1, num_branches)
             ELSE /\ pc' = "commit"
                  /\ UNCHANGED branch_idx
    /\ last' = [kind |-> "request", site |-> "history"]
    /\ UNCHANGED <<inputVars, inst_idx, results, repoListVars, passVars, repo_idx, processed_commits,
                   num_branches, prVars, outcome, commit_hits, pageGhosts, passGhosts, inst_ok>>

GetHistoryFail ==
    /\ pc = "history"
    /\ \E error \in Errors : Throw("history", error)
    /\ repo_failed' = (repo_names[repo_idx] :> Cardinality(ReturnedOids)) @@ repo_failed
    /\ last' = [kind |-> "failure", site |-> "history"]
    /\ UNCHANGED <<inputVars, repoListVars, passVars, items_used, repo_started, inst_ok>>

\* the author keys whose accumulator a step created or changed
Credited(before, after) ==
    {a \in DOMAIN after.val : a \notin DOMAIN before.val \/ after.val[a] # before.val[a]}

\* the user_id of an author before a step, if the author had an accumulator
IdBefore(before, author) ==
    IF author \in DOMAIN before.val
    THEN [known |-> TRUE, user_id |-> before.val[author].user_id]
    ELSE [known |-> FALSE, user_id |-> NoString]

\* what a step did with a commit of a history answer
CommitEvent(commit, counted, before, after) ==
    [kind |-> "commit", oid |-> commit.oid, counted |-> counted,
     author |-> IF counted THEN commit.author ELSE CommitAuthor(0),
     credited |-> Credited(before, after),
     id_before |-> IF counted THEN IdBefore(before, CommitAuthorLogin(commit))
                   ELSE IdBefore(EmptyObject, "Unknown")]

\* one iteration of the loop over branch_commits
ProcessCommit ==
    /\ pc = "commit"
    /\ LET commit == Head(branch_commits)
           repo_name == repo_names[repo_idx]
           is_new == IsNewCommit(processed_commits, commit.oid)
           stats == IF is_new THEN CountCommit(user_stats, commit, repo_name) ELSE user_stats
       IN /\ user_stats' = stats
          /\ processed_commits' = IF is_new THEN processed_commits \cup {commit.oid}
                                  ELSE processed_commits
          /\ commit_hits' = [commit_hits EXCEPT ![commit.oid] =
                [repo |-> @.repo + RepoCommits(stats, repo_name) - RepoCommits(user_stats, repo_name),
                 total |-> @.total + TotalCommits(stats) - TotalCommits(user_stats)]]
          /\ last' = CommitEvent(commit, is_new, user_stats, stats)
    /\ branch_commits' = Tail(branch_commits)
    /\ IF Len(branch_commits) = 1
       THEN /\ branch_idx' = branch_idx + 1
            /\ pc' = AfterBranch(branch_idx + 1, num_branches)
       ELSE UNCHANGED <<branch_idx, pc>>
    /\ UNCHANGED <<inputVars, inst_idx, results, repoListVars, cutoff_date, repo_names, repo_idx,
                   num_branches, prVars, outcome, oid_branches, pageGhosts, items_used,
                   passGhosts, inst_ok>>

UsesFallback_Always(count) == TRUE

\* the test that sends a repository with an answered search to the fallback
UsesFallback(count) == count = 0

\* the issue search of processRepositoryPullRequests
SearchPullRequests ==
    /\ pc = "search"
    /\ \E n \in 0..MaxSearchItems :
          /\ items_used + n <= MaxUpstreamItems
          /\ items_used' = items_used + n
          /\ total_count' = n
          /\ search_left' = n
          /\ IF UsesFallback(n)
             THEN StartFallback
             ELSE /\ pc' = "search_item"
                  /\ UNCHANGED <<page, has_more_pages, total_prs, page_len, page_pos, filtered_count>>
    /\ LeaveBranches
    /\ last' = [kind |-> "request", site |-> "search"]
    /\ UNCHANGED <<inputVars, inst_idx, results, repoListVars, passVars, repo_idx,
                   outcome, pageGhosts, passGhosts, inst_ok>>

SearchPullRequestsFail ==
    /\ pc = "search"
    /\ \E error \in Errors : Throw("search", error)
    /\ last' = [kind |-> "failure", site |-> "search"]
    /\ UNCHANGED <<inputVars, repoListVars, passVars, items_used, passGhosts, inst_ok>>

\* what a step did with a pull request: whether it was counted, whether its
\* creation and its closing fall into the window, and what the step added to
\* the counters of the repository
PullRequestEvent(path, counted, recount, pr, before, after, repo_name, cutoff) ==
    [kind |-> "pr", path |-> path, counted |-> counted, recount |-> recount,
     user |-> IF counted THEN pr.user
              ELSE [present |-> FALSE, login |-> NoString, id |-> NoString, node_id |-> NoString],
     credited |-> Credited(before, after),
     id_before |-> IF counted THEN IdBefore(before, PullRequestLogin(pr))
                   ELSE IdBefore(EmptyObject, "Unknown"),
     created_in |-> pr.created_at >= cutoff,
     closed_in |-> pr.closed_at # Missing /\ pr.closed_at >= cutoff,
     opened |-> RepoOpened(after, repo_name) - RepoOpened(before, repo_name),
     closed |-> RepoClosed(after, repo_name) - RepoClosed(before, repo_name),
     total_opened |-> TotalOpened(after) - TotalOpened(before),
     total_closed |-> TotalClosed(after) - TotalClosed(before)]

\* what the loop decided after the last item of a fetched page: the number
\* the page was requested with, whether it was full, its matches, and
\* whether another page is requested
PageEnd(done, number, full, matched, continues) ==
    [done |-> done, number |-> number, full |-> full, matched |-> matched, continues |-> continues]

NoPageEnd == PageEnd(FALSE, 0, FALSE, 0, FALSE)

\* one iteration of the loop of processPullRequestsFromSearch
ProcessSearchItem ==
    /\ pc = "search_item"
    /\ \E pr \in PullRequests(cutoff_date),
          url \in SearchUrls(installations[inst_idx].account.login, repo_names[repo_idx]) :
          LET is_target == IsTargetPullRequest(url, installations[inst_idx].account.login,
                                               repo_names[repo_idx])
          IN /\ pr.updated_at = cutoff_date
             /\ user_stats' = IF is_target
                              THEN ProcessPullRequest(user_stats, pr, repo_names[repo_idx], cutoff_date)
                              ELSE user_stats
             /\ last' = [page_end |-> NoPageEnd, of_target |-> url.kind = "match"]
                         @@ PullRequestEvent("search", is_target, FALSE, pr, user_stats, user_stats',
                                             repo_names[repo_idx], cutoff_date)
    /\ IF search_left = 1
       THEN NextRepository
       ELSE /\ search_left' = search_left - 1
            /\ UNCHANGED <<pc, repo_idx, commitVars, total_count, page, has_more_pages, total_prs,
                           page_len, page_pos, filtered_count, commitGhosts, pageGhosts>>
    /\ UNCHANGED <<inputVars, inst_idx, results, repoListVars, cutoff_date, repo_names, outcome,
                   items_used, passGhosts, inst_ok>>

\* what a page request was sent with and what it was answered with
PageEvent(result, status) ==
    [kind |-> "page", page |-> page, result |-> result, status |-> status,
     after_rate_limit |-> retry.pending, failed_page |-> retry.page]

\* a page request of fetchPRsWithPagination that is answered
FetchPage ==
    /\ pc = "page"
    /\ \E n \in 0..PerPage :
          /\ items_used + n <= MaxUpstreamItems
          /\ n = PerPage => RequestedPage(page) < MaxPage
          /\ items_used' = items_used + n
          /\ IF n = 0
             THEN NextRepository
             ELSE /\ has_more_pages' = (n = PerPage)
                  /\ page' = page + 1
                  /\ page_len' = n
                  /\ page_pos' = 1
                  /\ filtered_count' = 0
                  /\ retry' = NoRetry
                  /\ pc' = "page_item"
                  /\ UNCHANGED <<repo_idx, commitVars, total_count, search_left, total_prs,
                                 commitGhosts, pr_applied, rate_limits>>
    /\ last' = PageEvent("ok", 200)
    /\ UNCHANGED <<inputVars, inst_idx, results, repoListVars, passVars, outcome, passGhosts, inst_ok>>

FetchPageRateLimited ==
    /\ pc = "page"
    /\ rate_limits < MaxRateLimits
    /\ \E error \in PageErrors :
          /\ IsRateLimitError(error)
          /\ Throw("page", error)
          /\ last' = PageEvent("rate_limit", error.status)
    /\ UNCHANGED <<inputVars, repoListVars, passVars, items_used, passGhosts, inst_ok>>

FetchPageFail ==
    /\ pc = "page"
    /\ \E error \in PageErrors :
          /\ ~IsRateLimitError(error)
          /\ Throw("page", error)
          /\ last' = PageEvent("error", error.status)
    /\ UNCHANGED <<inputVars, repoListVars, passVars, items_used, passGhosts, inst_ok>>

\* the number of the listed pull request at the current position: the
\* listing is numbered from its first page on
ListedNumber == (RequestedPage(page - 1) - 1) * PerPage + page_pos

StopsEarly_PastPageTwo(filtered, next_page) == filtered = 0 /\ next_page > 3

\* the page ends without matches after the second request
StopsEarly(filtered, next_page) == filtered = 0 /\ next_page > 2

\* one item of the fetched page: the filter on updated_at, then the counting
ProcessPageItem ==
    /\ pc = "page_item"
    /\ \E pr \in PullRequests(cutoff_date) :
          LET matched == UpdatedInWindow(pr, cutoff_date)
              filtered == filtered_count + (IF matched THEN 1 ELSE 0)
          IN /\ user_stats' = IF matched
                              THEN FallbackCountPullRequest(user_stats, pr, repo_names[repo_idx], cutoff_date)
                              ELSE user_stats
             /\ last' = [page_end |-> IF page_pos < page_len THEN NoPageEnd
                                       ELSE PageEnd(TRUE, page - 1, has_more_pages, filtered,
                                                    has_more_pages /\ ~StopsEarly(filtered, page))]
                         @@ PullRequestEvent("fallback", matched, matched /\ pr_applied[ListedNumber] > 0,
                                             pr, user_stats, user_stats', repo_names[repo_idx], cutoff_date)
             /\ IF page_pos < page_len
                THEN /\ page_pos' = page_pos + 1
                     /\ filtered_count' = filtered
                     /\ pr_applied' = [pr_applied EXCEPT ![ListedNumber] = @ + (IF matched THEN 1 ELSE 0)]
                     /\ UNCHANGED <<pc, repo_idx, commitVars, total_count, search_left, page,
                                    has_more_pages, total_prs, page_len, commitGhosts, retry,
                                    rate_limits>>
                ELSE IF has_more_pages /\ ~StopsEarly(filtered, page)
                     THEN /\ pc' = "page"
                          /\ total_prs' = total_prs + filtered
                          /\ page_len' = 0
                          /\ page_pos' = 1
                          /\ filtered_count' = 0
                          /\ pr_applied' = [pr_applied EXCEPT ![ListedNumber] = @ + (IF matched THEN 1 ELSE 0)]
                          /\ UNCHANGED <<repo_idx, commitVars, total_count, search_left, page,
                                         has_more_pages, commitGhosts, retry, rate_limits>>
                     ELSE NextRepository
    /\ UNCHANGED <<inputVars, inst_idx, results, repoListVars, cutoff_date, repo_names, outcome,
                   items_used, passGhosts, inst_ok>>

\* the repository loop is over: formatInstallationStats and results.push
FinishInstallation ==
    /\ pc = "repo"
    /\ repo_idx > Len(repo_names)
    /\ results' = PushResult(results,
                    FormatInstallationStats(installations[inst_idx], days_to_look_back, user_stats))
    /\ inst_idx' = inst_idx + 1
    /\ inst_ok' = Append(inst_ok, [ok |-> TRUE, site |-> "none"])
    /\ pc' = "installation"
    /\ last' = [kind |-> "format", stats |-> user_stats]
    /\ UNCHANGED <<inputVars, repoListVars, cutoff_date, repo_names, repo_idx, user_stats, commitVars, prVars,
                   outcome, commitGhosts, pageGhosts, items_used, passGhosts>>

\* the installation loop is over: generateReport and the return
ReturnReport ==
    /\ pc = "installation"
    /\ inst_idx > Len(installations)
    /\ results' = ResultsAfterReport(results)
    /\ outcome' = [kind |-> "returned", summary |-> GenerateReport(results),
                   detailed_results |-> ResultsAfterReport(results)]
    /\ pc' = "done"
    /\ last' = [kind |-> "report", input |-> results]
    /\ UNCHANGED <<inputVars, inst_idx, repoListVars, passVars, repo_idx, commitVars, prVars,
                   commitGhosts, pageGhosts, items_used, passGhosts, inst_ok>>

Next ==
    \/ InitializeGitHubApp
    \/ InitializeGitHubAppFail
    \/ GetInstallations
    \/ GetInstallationsFail
    \/ GetInstallationOctokit
    \/ GetInstallationOctokitFail
    \/ GetRepositories
    \/ GetRepositoriesFail
    \/ CollectUserStats
    \/ GetBranches
    \/ GetBranchesFail
    \/ GetHistory
    \/ GetHistoryFail
    \/ ProcessCommit
    \/ SearchPullRequests
    \/ SearchPullRequestsFail
    \/ ProcessSearchItem
    \/ FetchPage
    \/ FetchPageRateLimited
    \/ FetchPageFail
    \/ ProcessPageItem
    \/ FinishInstallation
    \/ ReturnReport

Spec == Init /\ [][Next]_vars

\* the pagination loop always takes its next step: every awaited page request
\* is answered, every wait ends and every listed item is processed
FairSpec ==
    Spec /\ WF_vars(FetchPage \/ FetchPageRateLimited \/ FetchPageFail \/ ProcessPageItem)

\* ------------------------------------------------------------- properties
InBranches == pc \in {"history", "commit", "search"}
InPass == pc \in {"repo", "history", "commit", "search", "search_item", "page", "page_item"}
Pending == {branch_commits[i].oid : i \in 1..Len(branch_commits)}

\* the branches whose answer has been worked through and that returned o
BranchesDone(o) == IF o \in Pending THEN oid_branches[o] \ {branch_idx} ELSE oid_branches[o]

\* C1: within one repository pass a commit id adds exactly 1 to the
\* repository's commit counter and exactly 1 to the commit totals, however
\* many branches returned it; a commit id no branch returned adds nothing
C1_DedupLaw ==
    InBranches =>
        \A o \in Oids :
            /\ commit_hits[o].repo = (IF BranchesDone(o) # {} THEN 1 ELSE 0)
            /\ commit_hits[o].total = commit_hits[o].repo

C1_Witness ==
    /\ InBranches
    /\ \E o \in Oids : Cardinality(BranchesDone(o)) >= 2 /\ commit_hits[o] = [repo |-> 1, total |-> 1]

Values(o) == [i \in 1..Len(o.keys) |-> Get(o, o.keys[i])]

\* C2: in every state every author accumulator has total_commits equal to
\* the sum of commits_by_repo, total_prs_opened equal to the sum of opened and
\* total_prs_closed equal to the sum of closed over pull_requests_by_repo
C2_SumInvariant ==
    \A a \in DOMAIN user_stats.val :
        LET acc == Get(user_stats, a)
            prs == Values(acc.pull_requests_by_repo)
        IN /\ acc.total_commits = SumSeq(Values(acc.commits_by_repo))
           /\ acc.total_prs_opened = SumSeq([i \in 1..Len(prs) |-> prs[i].opened])
           /\ acc.total_prs_closed = SumSeq([i \in 1..Len(prs) |-> prs[i].closed])

C2_Witness ==
    /\ pc = "repo"
    /\ DOMAIN repo_failed # {}
    /\ \E a \in DOMAIN user_stats.val :
          Get(user_stats, a).total_commits >= 1 /\ Get(user_stats, a).total_prs_closed >= 1

Bit(b) == IF b THEN 1 ELSE 0

\* C3: a pull request that is processed adds 1 to the repository's opened
\* counter iff its creation is in the window and 1 to the closed counter iff
\* it has a closing time in the window, each independently of the other; a
\* pull request that is not processed adds nothing
C3_IncrementRule ==
    last.kind = "pr" =>
        /\ last.opened = Bit(last.counted /\ last.created_in)
        /\ last.closed = Bit(last.counted /\ last.closed_in)
        /\ last.total_opened = last.opened
        /\ last.total_closed = last.closed

C3_Witness ==
    /\ last.kind = "pr"
    /\ last.counted
    /\ ~last.created_in
    /\ last.closed_in
    /\ last.opened = 0
    /\ last.closed = 1

\* C4: the page request that follows a rate-limit failure of the request for
\* page N asks for page N again
C4_RetrySamePage ==
    (last.kind = "page" /\ last.after_rate_limit) => last.page = last.failed_page

\* C5: the fallback pagination counts no listed pull request a second time
C5_CountedOnce ==
    last.kind = "pr" => ~last.recount

\* C6: the results are one record per processed installation, in enumeration
\* order: a success record if its processing completed, otherwise an error
\* record with its id, account and error message; every enumerated
\* installation is processed before the run ends
C6_OneResultPerInstallation ==
    /\ Len(results) = Len(inst_ok)
    /\ Len(results) <= Len(installations)
    /\ pc = "installation" => Len(results) = inst_idx - 1
    /\ pc = "done" => Len(results) = Len(installations)
    /\ pc = "raised" => installations = <<>>
    /\ \A i \in 1..Len(results) :
          /\ results[i].id = installations[i].id
          /\ results[i].account = installations[i].account.login
          /\ inst_ok[i].ok => results[i].kind = "stats"
          /\ ~inst_ok[i].ok => results[i].kind = "error" /\ results[i].error = "Server Error"

C6_Witness ==
    /\ pc = "done"
    /\ Len(results) = 2
    /\ results[1].kind = "error"
    /\ results[2].kind = "stats"

\* C7: after a failed branch or history fetch the collection goes on: when
\* the installation's pass is over every filtered repository was started and
\* the installation's result is a success record
C7_RepoFailureIsolated ==
    /\ InPass => \A i \in 1..Len(repo_names) : i < repo_idx => repo_names[i] \in repo_started
    /\ (pc = "installation" /\ DOMAIN repo_failed # {}) =>
          /\ repo_started = Range(repo_names)
          /\ results # <<>>
          /\ results[Len(results)].kind = "stats"

C7_Witness ==
    /\ pc = "installation"
    /\ Len(repo_names) = 2
    /\ repo_names[1] \in DOMAIN repo_failed
    /\ repo_started = Range(repo_names)
    /\ results[Len(results)].kind = "stats"

\* the commits a success record reports for a repository, over all authors
FinalCommits(result, repo_name) ==
    SumSeq([i \in 1..Len(result.user_stats) |->
        LET rows == result.user_stats[i].repo_contributions
        IN SumSeq([j \in 1..Len(rows) |-> IF rows[j].repo_name = repo_name THEN rows[j].commits ELSE 0])])

\* the commits counted for a repository: in the accumulators while the pass
\* runs, in the installation's record once it is over
CommitsCounted(repo_name) ==
    IF InPass THEN RepoCommits(user_stats, repo_name)
    ELSE FinalCommits(results[Len(results)], repo_name)

\* C8 as stated: a repository whose branch or history fetch failed has a
\* commit count of 0
C8_ZeroCommits ==
    \A r \in DOMAIN repo_failed : CommitsCounted(r) = 0

\* C8 amended: a repository whose branch list fetch failed has no commit
\* counted, and one whose history fetch failed keeps the commits of the
\* branches fetched before: its commit count is the number of distinct commit
\* ids those branches returned
C8_CommitsBeforeFailureKept ==
    \A r \in DOMAIN repo_failed : CommitsCounted(r) = repo_failed[r]

C8_Witness ==
    /\ pc = "installation"
    /\ \E r \in DOMAIN repo_failed : repo_failed[r] >= 1 /\ CommitsCounted(r) = repo_failed[r]

\* C9: the call raises only for a failure of the app setup or of the
\* installation enumeration; after any other failure the run goes on, and
\* at its end the call returns the summary and the detailed results
C9_RaisesOnlyAtTop ==
    /\ pc = "raised" =>
          /\ outcome.kind = "raised"
          /\ last.kind = "failure"
          /\ last.site \in {"app", "installations"}
    /\ (last.kind = "failure" /\ last.site \notin {"app", "installations"}) => pc # "raised"
    /\ (last.kind = "page" /\ last.result # "ok") => pc # "raised"
    /\ pc = "done" =>
          /\ outcome.kind = "returned"
          /\ outcome.detailed_results = results
          /\ Len(outcome.detailed_results) = Len(installations)
          /\ Len(outcome.summary) >= Len(installations)
    /\ pc \notin {"raised", "done"} => outcome.kind = "running"

C9_Witness ==
    /\ pc = "done"
    /\ outcome.kind = "returned"
    /\ \E i \in 1..Len(inst_ok) : ~inst_ok[i].ok
    /\ DOMAIN repo_failed # {}

TimeOrZero(t) == IF t = Missing THEN 0 ELSE t

InWindowIndices ==
    {i \in 1..Len(repos) :
        \/ TimeOrZero(repos[i].pushed_at) >= cutoff_date
        \/ TimeOrZero(repos[i].updated_at) >= cutoff_date}

\* C10: the filtered list holds exactly the listed repositories whose later
\* timestamp (a missing one being time zero) is at or after the cutoff, in
\* the order of the listing
C10_FilterExact ==
    pc = "collect" =>
        /\ Len(updated_repos) = Cardinality(InWindowIndices)
        /\ \A k \in 1..Len(updated_repos) :
              \E i \in InWindowIndices :
                  /\ Cardinality({j \in InWindowIndices : j < i}) = k - 1
                  /\ updated_repos[k] = repos[i]

C10_Witness ==
    /\ pc = "collect"
    /\ \E i \in 1..Len(repos) :
          /\ repos[i].pushed_at # Missing
          /\ repos[i].pushed_at < cutoff_date
          /\ repos[i].updated_at >= cutoff_date
          /\ \E k \in 1..Len(updated_repos) : updated_repos[k] = repos[i]
    /\ \E i \in 1..Len(repos) :
          /\ repos[i].pushed_at = Missing
          /\ repos[i].updated_at = Missing
          /\ \A k \in 1..Len(updated_repos) : updated_repos[k] # repos[i]

\* the lines of the summary from the k-th line of one of the kinds up to the
\* line before the next one of these kinds
Segment(ls, kinds, k) ==
    LET S == {i \in 1..Len(ls) : ls[i].line \in kinds}
        a == CHOOSE i \in S : Cardinality({j \in S : j < i}) = k - 1
        later == {j \in S : j > a}
        b == IF later = {} THEN Len(ls) ELSE (CHOOSE j \in later : \A m \in later : j <= m) - 1
    IN SubSeq(ls, a, b)

SegmentCount(ls, kinds) == Cardinality({i \in 1..Len(ls) : ls[i].line \in kinds})

\* the block of the k-th installation result in the summary
Block(k) == Segment(outcome.summary, {"header", "error"}, k)

\* the lines of the u-th author of a block, and its rows
AuthorLines(block, u) == Segment(block, {"user"}, u)
RowsRendered(block, u) == SelectSeq(AuthorLines(block, u), LAMBDA l : l.line = "repo")

\* the position of the author of that name in a list of author summaries
AuthorIndex(users, name) == CHOOSE i \in 1..Len(users) : users[i].name = name
RowIndex(rows, repo_name) == CHOOSE i \in 1..Len(rows) : rows[i].repo_name = repo_name

\* p comes before q in a descending order that keeps the given order on ties
InOrder(total_p, index_p, total_q, index_q) ==
    \/ total_p > total_q
    \/ total_p = total_q /\ index_p < index_q

\* the authors of the k-th block are rendered in the required order
AuthorsInOrder(k) ==
    LET given == last.input[k].user_stats
        block == Block(k)
        n == SegmentCount(block, {"user"})
        name(u) == AuthorLines(block, u)[1].name
        at(u) == AuthorIndex(given, name(u))
    IN /\ n = Len(given)
       /\ \A u \in 1..n : \E i \in 1..Len(given) : given[i].name = name(u)
       /\ \A u, v \in 1..n : u < v =>
             InOrder(given[at(u)].total_commits + given[at(u)].total_prs_opened + given[at(u)].total_prs_closed,
                     at(u),
                     given[at(v)].total_commits + given[at(v)].total_prs_opened + given[at(v)].total_prs_closed,
                     at(v))

\* the rows of every author of the k-th block are rendered in the required order
RowsInOrder(k) ==
    LET given == last.input[k].user_stats
        block == Block(k)
    IN \A u \in 1..SegmentCount(block, {"user"}) :
          LET rows == given[AuthorIndex(given, AuthorLines(block, u)[1].name)].repo_contributions
              shown == RowsRendered(block, u)
              at(r) == RowIndex(rows, shown[r].repo.repo_name)
          IN /\ Len(shown) = Len(rows)
             /\ \A r \in 1..Len(shown) : \E i \in 1..Len(rows) : rows[i] = shown[r].repo
             /\ \A r, t \in 1..Len(shown) : r < t =>
                   InOrder(rows[at(r)].commits + rows[at(r)].prs_opened + rows[at(r)].prs_closed, at(r),
                           rows[at(t)].commits + rows[at(t)].prs_opened + rows[at(t)].prs_closed, at(t))

\* C11: in every success block of the summary the authors appear by
\* descending total_commits + total_prs_opened + total_prs_closed, equal
\* totals in the order of the list given to the renderer, and every author's
\* repository lines by descending commits + prs_opened + prs_closed with the
\* same tie-break
C11_ReportOrder ==
    pc = "done" =>
        /\ SegmentCount(outcome.summary, {"header", "error"}) = Len(last.input)
        /\ \A k \in 1..Len(last.input) :
              last.input[k].kind = "stats" => AuthorsInOrder(k) /\ RowsInOrder(k)

\* a block where the author inserted second has the larger total and is
\* rendered first
C11_Witness ==
    /\ pc = "done"
    /\ \E k \in 1..Len(last.input) :
          /\ last.input[k].kind = "stats"
          /\ Len(last.input[k].user_stats) = 2
          /\ UserTotal(last.input[k].user_stats[2]) > UserTotal(last.input[k].user_stats[1])
          /\ SegmentCount(Block(k), {"user"}) = 2
          /\ AuthorLines(Block(k), 1)[1].name = last.input[k].user_stats[2].name

\* C12: after generateReport has returned, the result list, every success
\* record's user_stats and every author's repo_contributions are what they
\* were before the call, and detailed_results is what aggregation produced
C12_RendererPure ==
    pc = "done" =>
        /\ results = last.input
        /\ outcome.detailed_results = last.input

LastLine(block) == block[Len(block)]

\* C13 as stated: in the summary a blank line ends the block of every
\* installation result, success record or error record
C13_BlankAfterEveryBlock ==
    pc = "done" =>
        \A k \in 1..Len(results) : LastLine(Block(k)).line = "blank"

\* C13 amended: a blank line ends the block of every success record and is
\* its only blank line; the block of an error record is its one line, with no
\* blank line after it
C13_BlankAfterSuccessBlock ==
    pc = "done" =>
        /\ SegmentCount(outcome.summary, {"header", "error"}) = Len(results)
        /\ \A k \in 1..Len(results) :
              IF results[k].kind = "stats"
              THEN /\ Block(k)[1].line = "header"
                   /\ LastLine(Block(k)).line = "blank"
                   /\ \A i \in 1..(Len(Block(k)) - 1) : Block(k)[i].line # "blank"
              ELSE Block(k) = <<[line |-> "error", account |-> results[k].account,
                                 error |-> results[k].error]>>

C13_Witness ==
    /\ pc = "done"
    /\ Len(results) = 2
    /\ results[1].kind = "error"
    /\ results[2].kind = "stats"
    /\ Len(Block(1)) = 1
    /\ LastLine(Block(2)).line = "blank"

\* the window a run uses for the argument it was given
WindowOf(given) == IF given = Missing THEN 7 ELSE given

\* C14: the header of a success block labels the window "week" for 7 days,
\* "month" for 30 days and "<N> days" for any other N, and a run without
\* days_to_look_back has a window of 7 days and the label "week"
C14_HeaderLabel ==
    pc = "done" =>
        \A k \in 1..Len(results) :
            results[k].kind = "stats" =>
                LET label == Block(k)[1].period_label
                    days == WindowOf(config.days_to_look_back)
                IN /\ Block(k)[1].line = "header"
                   /\ results[k].period_days = days
                   /\ label.unit = "week" <=> days = 7
                   /\ label.unit = "month" <=> days = 30
                   /\ label.unit = "days" <=> days \notin {7, 30}
                   /\ label.unit = "days" => label.n = days
                   /\ label.unit \in {"week", "month", "days"}

C14_Witness ==
    /\ pc = "done"
    /\ config.days_to_look_back = Missing
    /\ \E k \in 1..Len(results) :
          /\ results[k].kind = "stats"
          /\ Block(k)[1].period_label.unit = "week"

\* the repositories an accumulator has a counter for
ReposTouched(acc) == DOMAIN acc.commits_by_repo.val \cup DOMAIN acc.pull_requests_by_repo.val

\* C15: the repository-contribution list formatInstallationStats builds for
\* an author has exactly one row for every repository that is a key of
\* commits_by_repo or of pull_requests_by_repo, with the counters of the
\* accumulator and 0 where the repository is missing on one side
C15_UnionRows ==
    last.kind = "format" =>
        LET built == results[Len(results)].user_stats
        IN /\ Len(built) = Len(last.stats.keys)
           /\ \A u \in 1..Len(built) :
                 LET acc == Get(last.stats, built[u].name)
                     rows == built[u].repo_contributions
                 IN /\ built[u].name = last.stats.keys[u]
                    /\ {rows[r].repo_name : r \in 1..Len(rows)} = ReposTouched(acc)
                    /\ Len(rows) = Cardinality(ReposTouched(acc))
                    /\ \A r \in 1..Len(rows) :
                          LET name == rows[r].repo_name
                          IN /\ rows[r].commits =
                                   (IF name \in DOMAIN acc.commits_by_repo.val
                                    THEN acc.commits_by_repo.val[name] ELSE 0)
                             /\ rows[r].prs_opened =
                                   (IF name \in DOMAIN acc.pull_requests_by_repo.val
                                    THEN acc.pull_requests_by_repo.val[name].opened ELSE 0)
                             /\ rows[r].prs_closed =
                                   (IF name \in DOMAIN acc.pull_requests_by_repo.val
                                    THEN acc.pull_requests_by_repo.val[name].closed ELSE 0)

\* an author with one repository touched only by a commit and another one
\* touched only by a pull request
C15_Witness ==
    /\ last.kind = "format"
    /\ \E u \in 1..Len(results[Len(results)].user_stats) :
          LET acc == Get(last.stats, results[Len(results)].user_stats[u].name)
              rows == results[Len(results)].user_stats[u].repo_contributions
          IN /\ Len(rows) = 2
             /\ \E r \in 1..2 :
                   /\ rows[r].repo_name \notin DOMAIN acc.pull_requests_by_repo.val
                   /\ rows[r].commits = 1
                   /\ rows[r].prs_opened = 0
                   /\ rows[r].prs_closed = 0
             /\ \E r \in 1..2 :
                   /\ rows[r].repo_name \notin DOMAIN acc.commits_by_repo.val
                   /\ rows[r].commits = 0
                   /\ rows[r].prs_opened = 1

\* the author key the attribution order gives a commit and a pull request
CommitKey(author) ==
    CASE author.user.login # NoString -> author.user.login
      [] author.user.login = NoString /\ author.name # NoString -> author.name
      [] author.user.login = NoString /\ author.name = NoString /\ author.email # NoString -> author.email
      [] OTHER -> "Unknown"

PullRequestKey(user) == IF user.present THEN user.login ELSE "Unknown"

\* C16: a counted commit changes the accumulator of exactly one author key:
\* the linked login, else the author name, else the author email, else
\* "Unknown"; a counted pull request changes no accumulator but the one of
\* its login, or of "Unknown" if it has no user
C16_AuthorKey ==
    /\ (last.kind = "commit" /\ last.counted) =>
          /\ last.credited = {CommitKey(last.author)}
          /\ CommitKey(last.author) \in DOMAIN user_stats.val
    /\ (last.kind = "commit" /\ ~last.counted) => last.credited = {}
    /\ (last.kind = "pr" /\ last.counted) =>
          /\ last.credited \subseteq {PullRequestKey(last.user)}
          /\ PullRequestKey(last.user) \in DOMAIN user_stats.val
    /\ (last.kind = "pr" /\ ~last.counted) => last.credited = {}

\* a commit with neither a linked account nor a name is credited to its email
C16_Witness ==
    /\ last.kind = "commit"
    /\ last.counted
    /\ last.author.user.login = NoString
    /\ last.author.name = NoString
    /\ last.author.email # NoString
    /\ last.credited = {last.author.email}

\* the id an observation carries
CommitId(author) ==
    IF author.user.id # NoString THEN author.user.id ELSE author.user.databaseId

PullRequestId(user) == IF user.id # NoString THEN user.id ELSE user.node_id

\* the author key and the id of the observation a step counts, if it counts one
Observed ==
    IF pc = "commit" /\ last'.kind = "commit" /\ last'.counted
    THEN [counted |-> TRUE, key |-> CommitKey(last'.author), user_id |-> CommitId(last'.author)]
    ELSE IF pc \in {"search_item", "page_item"} /\ last'.kind = "pr" /\ last'.counted
         THEN [counted |-> TRUE, key |-> PullRequestKey(last'.user), user_id |-> PullRequestId(last'.user)]
         ELSE [counted |-> FALSE, key |-> "Unknown", user_id |-> NoString]

\* C17: a user_id that is set stays what it is as long as the accumulator
\* lives, and an observation that carries an id sets the user_id of an
\* accumulator that is new or has none
C17_FirstIdWins ==
    [][ /\ \A a \in DOMAIN user_stats.val :
              (user_stats.val[a].user_id # NoString /\ a \in DOMAIN user_stats'.val)
                  => user_stats'.val[a].user_id = user_stats.val[a].user_id
        /\ (Observed.counted /\ Observed.user_id # NoString) =>
              /\ Observed.key \in DOMAIN user_stats'.val
              /\ (Observed.key \notin DOMAIN user_stats.val \/ user_stats.val[Observed.key].user_id = NoString)
                    => user_stats'.val[Observed.key].user_id = Observed.user_id
      ]_vars

\* a commit that carries another id than the one its author already has, and
\* the author keeps the id it had
C17_Witness ==
    /\ last.kind = "commit"
    /\ last.counted
    /\ last.id_before.known
    /\ last.id_before.user_id # NoString
    /\ CommitId(last.author) # NoString
    /\ CommitId(last.author) # last.id_before.user_id
    /\ user_stats.val[CommitKey(last.author)].user_id = last.id_before.user_id

\* C18: after the branch listing or a history fetch of a repository has
\* failed, the pull-request collection of that same repository comes next
C18_PullRequestsStillCollected ==
    (last.kind = "failure" /\ last.site \in {"branches", "history"}) =>
        /\ pc = "search"
        /\ repo_names[repo_idx] \in DOMAIN repo_failed

InFallback == pc \in {"page", "page_item"}

\* C19: the fallback pagination of a repository starts only from its search
\* step, when the search threw or returned total_count = 0; once it has run
\* the loop moves on to the next repository, so it starts at most once per
\* repository, and after a search with total_count > 0 it does not start
C19_FallbackAtMostOnce ==
    [][ /\ (InFallback' /\ ~InFallback) =>
              /\ pc = "search"
              /\ page' = 1
              /\ repo_idx' = repo_idx
              /\ \/ last'.kind = "failure" /\ last'.site = "search"
                 \/ last'.kind = "request" /\ last'.site = "search" /\ total_count' = 0
        /\ (InFallback /\ ~InFallback') => (pc' = "repo" /\ repo_idx' = repo_idx + 1)
        /\ pc = "search_item" =>
              /\ total_count > 0
              /\ ~InFallback'
              /\ pc' = "repo" => repo_idx' = repo_idx + 1
        /\ (pc \in {"repo", "history", "commit", "search", "search_item", "page", "page_item"}
              /\ pc' \in {"repo", "history", "commit", "search", "search_item", "page", "page_item"})
              => repo_idx' >= repo_idx
      ]_vars

\* the fallback of a repository running after its search returned nothing
C19_Witness ==
    /\ pc = "page"
    /\ page = 1
    /\ total_count = 0
    /\ last.kind = "request"
    /\ last.site = "search"

\* C20 as stated: after a full page without in-window items the pagination
\* stops only if the page number is above 2; after a full page 1 or 2
\* without in-window items the next page is requested
C20_StopsOnlyPastPageTwo ==
    (last.kind = "pr" /\ last.path = "fallback" /\ last.page_end.done
        /\ last.page_end.full /\ last.page_end.matched = 0) =>
            (~last.page_end.continues => last.page_end.number > 2)

\* C20 amended: after a full page without in-window items the pagination
\* stops exactly if the page was requested with a number of 2 or more; after
\* a full page 1 without in-window items page 2 is requested, and a full page
\* with an in-window item is always followed by the next request
C20_StopsFromPageTwo ==
    (last.kind = "pr" /\ last.path = "fallback" /\ last.page_end.done /\ last.page_end.full) =>
        /\ last.page_end.continues <=> (last.page_end.matched > 0 \/ last.page_end.number < 2)
        /\ last.page_end.continues => (pc = "page" /\ page = last.page_end.number + 1)
        /\ ~last.page_end.continues => pc = "repo"

\* a full second page without in-window items, after which the pagination stops
C20_Witness ==
    /\ last.kind = "pr"
    /\ last.path = "fallback"
    /\ last.page_end.done
    /\ last.page_end.full
    /\ last.page_end.matched = 0
    /\ last.page_end.number = 2
    /\ ~last.page_end.continues
    /\ pc = "repo"

\* C21: a fallback pagination that has started ends, the upstream answering
\* with a rate-limit error at most MaxRateLimits times and listing fewer than
\* MaxPage full pages
C21_FallbackTerminates == InFallback ~> ~InFallback

\* a pagination that ended with a short page answered after a rate-limit error
C21_Witness ==
    /\ pc = "repo"
    /\ last.kind = "page"
    /\ last.result = "ok"
    /\ last.after_rate_limit

\* C22: a page request of the fallback that throws an error other than a
\* rate-limit error ends the pagination of that repository and nothing else:
\* control is at the next repository of the same installation, the accumulator
\* is what it was, and no result is recorded and nothing is raised
C22_PageErrorStopsRepositoryOnly ==
    [][ (pc = "page" /\ last'.kind = "page" /\ last'.result = "error") =>
            /\ ~InFallback'
            /\ pc' = "repo"
            /\ repo_idx' = repo_idx + 1
            /\ inst_idx' = inst_idx
            /\ user_stats' = user_stats
            /\ results' = results
            /\ outcome' = outcome ]_vars

\* page 2 or later failed after an earlier page added an opened pull request,
\* and another repository of the installation is left
C22_Witness ==
    /\ pc = "repo"
    /\ last.kind = "page"
    /\ last.result = "error"
    /\ last.page >= 2
    /\ RepoOpened(user_stats, repo_names[repo_idx - 1]) > 0
    /\ repo_idx <= Len(repo_names)

C24_ListedAuthorsContributed ==
    \A i \in 1..Len(results) :
        results[i].kind = "stats" =>
            \A u \in 1..Len(results[i].user_stats) : UserTotal(results[i].user_stats[u]) >= 1

\* an installation is being processed: between the creation of its client
\* and the recording of its result
InInstallation == pc \in {"getRepositories", "collect"} \/ InPass

\* C25: processing is sequential: while installation number i is processed
\* exactly i - 1 results are recorded; the pull-request search of a repository
\* starts only when every listed branch has been fetched and its commits have
\* been worked through; the repository index moves only to the next
\* repository, at the start of the next repository's collection, and the
\* installation index moves only to the next installation, with the result of
\* the previous one recorded
C25_Sequential ==
    /\ [](InInstallation => Len(results) = inst_idx - 1)
    /\ [](pc = "search" => (branch_idx = num_branches + 1 /\ branch_commits = <<>>))
    /\ [][ /\ (repo_idx' # repo_idx) =>
                 /\ pc' = "repo"
                 /\ repo_idx' = IF pc = "collect" THEN 1 ELSE repo_idx + 1
           /\ (inst_idx' # inst_idx) =>
                 /\ inst_idx' = inst_idx + 1
                 /\ Len(results') = inst_idx
                 /\ pc' = "installation" ]_vars

\* the pull-request search of the second repository of the second
\* installation starts after all its branches were fetched
C25_Witness ==
    /\ pc = "search"
    /\ num_branches = MaxBranches
    /\ inst_idx = 2
    /\ repo_idx = 2

\* C26: the accumulator belongs to one installation's pass: the collection of
\* an installation's first repository starts from an empty accumulator,
\* whatever the installations before it collected or failed with; while the
\* pass runs every repository the accumulator names is one whose collection
\* this pass has started; and the success record is built from that
\* accumulator and the installation alone
C26_AccumulatorPrivate ==
    /\ (pc = "repo" /\ repo_idx = 1) => user_stats = EmptyObject
    /\ InPass =>
          \A a \in DOMAIN user_stats.val : ReposTouched(user_stats.val[a]) \subseteq repo_started
    /\ last.kind = "format" =>
          results[Len(results)] =
              FormatInstallationStats(installations[inst_idx - 1], days_to_look_back, last.stats)

\* the second installation's pass starts after the first installation's pass
\* recorded an author
C26_Witness ==
    /\ pc = "repo"
    /\ repo_idx = 1
    /\ repo_names # <<>>
    /\ inst_idx = 2
    /\ Len(results) = 1
    /\ results[1].kind = "stats"
    /\ results[1].user_stats # <<>>

\* pull-request authors with and without a numeric id and a node id
AnyPullRequestUsers ==
    PullRequestUsers \cup
        { [present |-> TRUE, login |-> "alice", id |-> NoString, node_id |-> "N_alice"],
          [present |-> TRUE, login |-> "bob", id |-> NoString, node_id |-> NoString] }

AnyPullRequests(cutoff) ==
    [user : AnyPullRequestUsers,
     created_at : TimesAround(cutoff),
     closed_at : TimesAround(cutoff) \cup {Missing},
     updated_at : TimesAround(cutoff)]

\* C27: on every accumulator a pass reaches and for every pull request, the
\* per-item code of the fallback loop leaves the accumulator processPullRequest
\* leaves: same author key, same user id, same repository entry, same opened
\* and closed counters
C27_SameRuleOnBothPaths ==
    (InPass /\ repo_idx <= Len(repo_names)) =>
        \A pr \in AnyPullRequests(cutoff_date) :
            FallbackCountPullRequest(user_stats, pr, repo_names[repo_idx], cutoff_date)
                = ProcessPullRequest(user_stats, pr, repo_names[repo_idx], cutoff_date)

\* the fallback counted a closed pull request of an author whose accumulator
\* a commit had created without a user id
C27_Witness ==
    /\ last.kind = "pr"
    /\ last.path = "fallback"
    /\ last.counted
    /\ last.closed = 1
    /\ last.id_before.known
    /\ last.id_before.user_id = NoString
    /\ last.user.id # NoString

\* C28: a search result whose pull_request.url is missing, is not a
\* pull-request url, or names another owner or another repository leaves the
\* accumulator as it is, and the loop goes on with the next result of the
\* response (or, after the last one, with the next repository); a result
\* whose url names the searched repository is handed to processPullRequest
C28_OffTargetSkipped ==
    [][ (pc = "search_item" /\ last'.kind = "pr" /\ last'.path = "search") =>
            /\ last'.counted = last'.of_target
            /\ ~last'.of_target => user_stats' = user_stats
            /\ results' = results
            /\ outcome' = outcome
            /\ IF search_left > 1
               THEN pc' = "search_item" /\ search_left' = search_left - 1 /\ repo_idx' = repo_idx
               ELSE pc' = "repo" /\ repo_idx' = repo_idx + 1 ]_vars

\* the first of two results of a search response was skipped and the second
\* is about to be processed
C28_Witness ==
    /\ pc = "search_item"
    /\ last.kind = "pr"
    /\ last.path = "search"
    /\ ~last.of_target
    /\ total_count = 2
    /\ search_left = 1
    /\ user_stats = EmptyObject

====
